---- MODULE Spec2Model ----
(***************************************************************************)
(* combine_dseg.py: combine_dseg_labels relabels a label volume.  The      *)
(* function is modelled as a state machine over its local variables: one   *)
(* action per statement block or loop iteration, in program order.         *)
(***************************************************************************)
EXTENDS Integers, Sequences, FiniteSets, TLC

(***************************************************************************)
(* Python integers are unbounded.  A Python int n is held as the pair      *)
(* hi * 2^16 + lo with 0 <= lo < 2^16, so that labels beyond the 32-bit    *)
(* range can be written down and compared.                                 *)
(***************************************************************************)
Base == 2^16

Py(n) == [hi |-> n \div Base, lo |-> n % Base]

PyAdd(a, k) == [hi |-> a.hi + ((a.lo + k) \div Base), lo |-> (a.lo + k) % Base]

PyLeq(a, b) == a.hi < b.hi \/ (a.hi = b.hi /\ a.lo <= b.lo)

PyMax2(a, b) == IF PyLeq(a, b) THEN b ELSE a

\* np.iinfo(dtype).max and np.iinfo(dtype).min of the signed integer dtypes
IInfoMax(dt) ==
    CASE dt = "int8"  -> Py(127)
      [] dt = "int16" -> Py(32767)
      [] dt = "int32" -> [hi |-> 32767, lo |-> Base - 1]
      [] dt = "int64" -> [hi |-> 2147483647, lo |-> Base - 1]

IInfoMin(dt) ==
    CASE dt = "int8"  -> Py(-128)
      [] dt = "int16" -> Py(-32768)
      [] dt = "int32" -> [hi |-> -32768, lo |-> 0]
      [] dt = "int64" -> [hi |-> -2147483647 - 1, lo |-> 0]

InRange(v, dt) == PyLeq(IInfoMin(dt), v) /\ PyLeq(v, IInfoMax(dt))

\* two's-complement reduction of v to the width of dt
WrapTo(v, dt) ==
    CASE dt = "int8"  -> Py(IF v.lo % 256 >= 128 THEN (v.lo % 256) - 256 ELSE v.lo % 256)
      [] dt = "int16" -> Py(IF v.lo >= 32768 THEN v.lo - Base ELSE v.lo)
      [] dt = "int32" -> [hi |-> IF v.hi % Base >= 32768 THEN (v.hi % Base) - Base ELSE v.hi % Base,
                          lo |-> v.lo]
      [] dt = "int64" -> v

(***************************************************************************)
(* Label values as the caller supplies them: a Python int, or a string of  *)
(* decimal digits (what json.loads gives for keys, or a quoted label).     *)
(* The empty string is a value int() cannot coerce.                        *)
(***************************************************************************)
IntLab(n) == [kind |-> "int", val |-> Py(n), txt |-> <<>>]

StrLab(digits) == [kind |-> "str", val |-> Py(0), txt |-> digits]

NoKey == [kind |-> "none", val |-> Py(0), txt |-> <<>>]

RECURSIVE ParseDigits(_)
ParseDigits(txt) ==
    IF txt = <<>> THEN 0
    ELSE 10 * ParseDigits(SubSeq(txt, 1, Len(txt) - 1)) + txt[Len(txt)]

\* int(x): [ok, val]; ok = FALSE is the ValueError of a non-coercible value
PyInt(x) ==
    CASE x.kind = "int" -> [ok |-> TRUE, val |-> x.val]
      [] x.kind = "str" /\ x.txt # <<>> -> [ok |-> TRUE, val |-> Py(ParseDigits(x.txt))]
      [] OTHER -> [ok |-> FALSE, val |-> Py(0)]

(***************************************************************************)
(* The dict `mapping`: a sequence of [orig, new] items in insertion order, *)
(* one item per key.                                                       *)
(***************************************************************************)
HasKey(m, k) == \E i \in 1..Len(m) : m[i].orig = k

Get(m, k) == m[CHOOSE i \in 1..Len(m) : m[i].orig = k].new

\* `lab in mapping` for a caller-supplied value: the keys are ints, and a
\* string never equals an int
Contains(m, x) == x.kind = "int" /\ HasKey(m, x.val)

\* a list in place of the dict: every assignment adds an item
AppendItem(m, k, v) == Append(m, [orig |-> k, new |-> v])

\* mapping[k] = v: a new key is appended, an existing key keeps its place
SetItem(m, k, v) ==
    IF HasKey(m, k)
    THEN [i \in 1..Len(m) |-> IF m[i].orig = k THEN [orig |-> k, new |-> v] ELSE m[i]]
    ELSE Append(m, [orig |-> k, new |-> v])

Warning(lab, target) == [lab |-> lab, target |-> target]

\* one iteration of `for lab in originals` of the Mapping branch
MappingBranchStep(m, w, new_label, lab) ==
    IF Contains(m, lab)
    THEN [err |-> FALSE, mapping |-> m, warns |-> Append(w, Warning(lab.val, Get(m, lab.val)))]
    ELSE IF PyInt(lab).ok /\ PyInt(new_label).ok
         THEN [err |-> FALSE, mapping |-> SetItem(m, PyInt(lab).val, PyInt(new_label).val), warns |-> w]
         ELSE [err |-> TRUE, mapping |-> m, warns |-> w]

\* the sequence branch without its `if lab in mapping` test: the last group wins
SequenceBranchStepLastWins(m, w, start, idx, lab) ==
    IF ~PyInt(lab).ok
    THEN [err |-> TRUE, mapping |-> m, warns |-> w]
    ELSE [err |-> FALSE, mapping |-> SetItem(m, PyInt(lab).val, PyAdd(start, idx)), warns |-> w]

\* one iteration of `for lab in grp` of the sequence branch
SequenceBranchStep(m, w, start, idx, lab) ==
    IF ~PyInt(lab).ok
    THEN [err |-> TRUE, mapping |-> m, warns |-> w]
    ELSE IF HasKey(m, PyInt(lab).val)
         THEN [err |-> FALSE, mapping |-> m,
               warns |-> Append(w, Warning(PyInt(lab).val, Get(m, PyInt(lab).val)))]
         ELSE [err |-> FALSE, mapping |-> SetItem(m, PyInt(lab).val, PyAdd(start, idx)), warns |-> w]

(***************************************************************************)
(* Output dtype (lines 131-141) and the volume transform (lines 143-150).  *)
(***************************************************************************)
RECURSIVE MaxNew(_)
\* max(mapping.values()) if mapping else 0
MaxNew(m) ==
    IF m = <<>> THEN Py(0)
    ELSE IF Len(m) = 1 THEN m[1].new
    ELSE PyMax2(m[1].new, MaxNew(Tail(m)))

Reserve(preserve) == IF preserve THEN Py(1) ELSE Py(0)

NeededMax(m, preserve) == PyMax2(MaxNew(m), Reserve(preserve))

\* the if/elif/else over np.iinfo(...).max
InferDtype(needed) ==
    IF PyLeq(needed, IInfoMax("int8")) THEN "int8"
    ELSE IF PyLeq(needed, IInfoMax("int16")) THEN "int16"
    ELSE "int32"

\* an explicit dtype widened to the inferred one when it is narrower
ChooseDtypeWidened(given, m, preserve) ==
    IF given = "None" THEN InferDtype(NeededMax(m, preserve))
    ELSE IF InRange(NeededMax(m, preserve), given) THEN given
    ELSE InferDtype(NeededMax(m, preserve))

ChooseDtype(given, m, preserve) ==
    IF given = "None" THEN InferDtype(NeededMax(m, preserve)) ELSE given

\* .astype(np.int32) of a voxel value given in halves: truncation toward zero
AsInt32(h) == IF h >= 0 THEN h \div 2 ELSE -((-h) \div 2)

CastVolume(vol) == [i \in 1..Len(vol) |-> AsInt32(vol[i])]

\* np.ones in place of np.zeros
Ones(n, dt) == [dtype |-> dt, vals |-> [i \in 1..n |-> Py(1)]]

Zeros(n, dt) == [dtype |-> dt, vals |-> [i \in 1..n |-> Py(0)]]

\* the loop without its `continue`
SkipsNothing(orig_label, preserve) == FALSE

\* `if orig_label == 0 and preserve_zero: continue`
SkipsItem(orig_label, preserve) == orig_label = Py(0) /\ preserve

\* data == orig_label
Mask(d, orig_label) == {i \in 1..Len(d) : Py(d[i]) = orig_label}

\* out[mask] = value, with value already converted to the dtype of out
Assign(o, mask, value) ==
    [o EXCEPT !.vals = [i \in 1..Len(o.vals) |-> IF i \in mask THEN value ELSE o.vals[i]]]

(***************************************************************************)
(* Saving (lines 157-161): a path is a sequence of components.             *)
(***************************************************************************)
NoPath == [given |-> FALSE, parts |-> <<>>]

Path(parts) == [given |-> TRUE, parts |-> parts]

\* saving whatever output_path is
AlwaysTruthy(p) == TRUE

\* truthiness of output_path: None and "" are both false
Truthy(p) == p.given /\ p.parts # <<>>

\* os.path.dirname
Dirname(p) == SubSeq(p.parts, 1, Len(p.parts) - 1)

PreexistingDirs == {<<"olddir">>}

(***************************************************************************)
(* Bounds of the inputs.                                                   *)
(***************************************************************************)
MaxGroups == 2
MaxLabels == 3
MaxVoxels == 2

\* all sequences over S of length exactly n
SeqsOfLen(S, n) == [1..n -> S]

RECURSIVE GroupLists(_, _, _)
\* all lists of exactly g groups over the label values R holding at most t labels in total
GroupLists(R, g, t) ==
    IF g = 0 THEN {<<>>}
    ELSE UNION {{<<grp>> \o rest : rest \in GroupLists(R, g - 1, t - n), grp \in SeqsOfLen(R, n)} :
                n \in 0..t}

\* the orderings of g distinct keys out of K
DistinctKeys(K, g) == {ks \in SeqsOfLen(K, g) : \A i, j \in 1..g : i # j => ks[i] # ks[j]}

\* all lists of at most MaxGroups groups holding at most MaxLabels labels
BoundedGroupLists(R) == UNION {GroupLists(R, g, MaxLabels) : g \in 0..MaxGroups}

\* groups given as a list: [[...], [...]]
SequenceInput(gl) ==
    [form |-> "seq", entries |-> [i \in 1..Len(gl) |-> [key |-> NoKey, originals |-> gl[i]]]]

\* groups given as a dict: {ks[1]: [...], ks[2]: [...]}
MappingInput(gl, ks) ==
    [form |-> "map", entries |-> [i \in 1..Len(gl) |-> [key |-> ks[i], originals |-> gl[i]]]]

\* the (idx, key, lab) triples in the order the nested loops visit them
RECURSIVE FlatFrom(_, _)
FlatFrom(entries, i) ==
    IF i > Len(entries) THEN <<>>
    ELSE [j \in 1..Len(entries[i].originals) |->
              [idx |-> i - 1, key |-> entries[i].key, lab |-> entries[i].originals[j]]]
         \o FlatFrom(entries, i + 1)

Flat(g) == FlatFrom(g.entries, 1)

Int32Max == [hi |-> 32767, lo |-> Base - 1]
TwoTo31 == [hi |-> 32768, lo |-> 0]

VARIABLES
    pc,             \* position in combine_dseg_labels
    dseg_input,     \* argument: "path", "missing", "image" or "other"
    volume,         \* voxel values (in halves) of the volume dseg_input denotes
    groups,         \* argument
    start_label,    \* argument
    preserve_zero,  \* argument
    out_dtype,      \* argument; the value lines 135-141 leave in it is out.dtype
    output_path,    \* argument
    numpy_overflow, \* what the installed NumPy does with an out-of-range Python int
    data,           \* line 109
    mapping,        \* line 112
    warns,          \* the warnings emitted so far
    pos,            \* number of (group, label) iterations of the build loops done
    out,            \* line 143
    todo,           \* the items of mapping.items() not yet visited (line 147)
    nwrites,        \* per voxel, how many assignments of line 150 have written it
    raised,         \* the exception that ended the call, or "none"
    fs_dirs,        \* directories that exist
    fs_files        \* files written

vars == <<pc, dseg_input, volume, groups, start_label, preserve_zero, out_dtype, output_path,
          numpy_overflow, data, mapping, warns, pos, out, todo, nwrites, raised, fs_dirs, fs_files>>

args == <<dseg_input, volume, groups, start_label, preserve_zero, out_dtype, output_path,
          numpy_overflow>>

NoArray == [dtype |-> "None", vals |-> <<>>]

\* the state on entry to combine_dseg_labels with the given arguments
Entry(kind, vol, g, start, pz, dt, path, np) ==
    /\ pc = "load"
    /\ dseg_input = kind
    /\ volume = vol
    /\ groups = g
    /\ start_label = start
    /\ preserve_zero = pz
    /\ out_dtype = dt
    /\ output_path = path
    /\ numpy_overflow = np
    /\ data = <<>>
    /\ mapping = <<>>
    /\ warns = <<>>
    /\ pos = 0
    /\ out = NoArray
    /\ todo = <<>>
    /\ nwrites = <<>>
    /\ raised = "none"
    /\ fs_dirs = PreexistingDirs
    /\ fs_files = {}

Empty == StrLab(<<>>)

\* label collisions: ints, a digit string and a non-coercible value
CollisionLabels == {IntLab(1), IntLab(2), StrLab(<<2>>), Empty}
CollisionKeys == {IntLab(1), IntLab(2), StrLab(<<1>>)}

InitCollisions ==
    \E gl \in BoundedGroupLists(CollisionLabels) :
        \/ Entry("image", <<0, 4>>, SequenceInput(gl), Py(1), TRUE, "None", NoPath, "raise")
        \/ \E ks \in DistinctKeys(CollisionKeys, Len(gl)) :
               Entry("image", <<0, 4>>, MappingInput(gl, ks), Py(1), TRUE, "None", NoPath, "raise")

\* background and unmapped voxels: values 0, 1.0 and 2.5
VoxelValues == {0, 2, 5}
BackgroundLabels == {IntLab(0), IntLab(1)}
BackgroundKeys == {IntLab(1), IntLab(2)}

InitBackground ==
    \E gl \in BoundedGroupLists(BackgroundLabels), vol \in SeqsOfLen(VoxelValues, MaxVoxels),
       pz \in BOOLEAN, dt \in {"None", "int8"} :
        \/ Entry("image", vol, SequenceInput(gl), Py(1), pz, dt, NoPath, "raise")
        \/ \E ks \in DistinctKeys(BackgroundKeys, Len(gl)) :
               Entry("image", vol, MappingInput(gl, ks), Py(1), pz, dt, NoPath, "raise")

\* label magnitudes around the limits of the integer widths
StartLabels == {Py(-200), Py(1), Py(100), Py(127), Py(199), Py(32767), Int32Max}
WideKeys == {IntLab(-200), IntLab(1), IntLab(100), IntLab(127), IntLab(128), IntLab(200),
             IntLab(32767), IntLab(32768), [IntLab(0) EXCEPT !.val = Int32Max],
             [IntLab(0) EXCEPT !.val = TwoTo31], StrLab(<<2, 0, 0>>)}
Dtypes == {"None", "int8", "int16", "int32", "int64"}
NumpyBuilds == {"wrap", "raise"}

WidthInputs ==
    {[form |-> "seq", entries |-> <<[key |-> NoKey, originals |-> <<IntLab(1)>>]>>],
     [form |-> "seq", entries |-> <<[key |-> NoKey, originals |-> <<IntLab(0)>>],
                                    [key |-> NoKey, originals |-> <<IntLab(1)>>]>>],
     [form |-> "seq", entries |-> <<[key |-> NoKey, originals |-> <<IntLab(1)>>],
                                    [key |-> NoKey, originals |-> <<IntLab(1), IntLab(0)>>]>>]}
    \cup {[form |-> "map", entries |-> <<[key |-> k, originals |-> <<IntLab(1)>>]>>] : k \in WideKeys}
    \cup {[form |-> "map", entries |-> <<[key |-> k, originals |-> <<StrLab(<<0>>), IntLab(1)>>]>>] :
             k \in WideKeys}
    \cup {[form |-> "map", entries |-> <<[key |-> ks[1], originals |-> <<IntLab(1)>>],
                                         [key |-> ks[2], originals |-> <<IntLab(0)>>]>>] :
             ks \in DistinctKeys(WideKeys, 2)}

InitWidths ==
    \E g \in WidthInputs, start \in StartLabels, vol \in SeqsOfLen({0, 2}, MaxVoxels),
       pz \in BOOLEAN, dt \in Dtypes, np \in NumpyBuilds :
        /\ g.form = "map" => start = Py(1)
        /\ Entry("image", vol, g, start, pz, dt, NoPath, np)

\* what dseg_input is, where the result goes, and runs that raise
InputKinds == {"path", "missing", "image", "other"}
OutputPaths == {NoPath, Path(<<>>), Path(<<"out.nii.gz">>), Path(<<"newdir", "out.nii.gz">>),
                Path(<<"olddir", "out.nii.gz">>)}
FailingInputs ==
    {[form |-> "seq", entries |-> <<[key |-> NoKey, originals |-> <<IntLab(1)>>]>>],
     [form |-> "seq", entries |-> <<[key |-> NoKey, originals |-> <<IntLab(1), Empty>>]>>],
     [form |-> "map", entries |-> <<[key |-> Empty, originals |-> <<IntLab(1)>>]>>]}

InitFiles ==
    \E kind \in InputKinds, path \in OutputPaths, g \in FailingInputs, start \in {Py(1), Py(200)},
       dt \in {"None", "int8"}, np \in NumpyBuilds :
        Entry(kind, <<4, 0>>, g, start, TRUE, dt, path, np)

Init == InitCollisions \/ InitBackground \/ InitWidths \/ InitFiles

(***************************************************************************)
(* Actions, in program order.                                              *)
(***************************************************************************)
\* lines 102-103, 109: a path nibabel can load
LoadPath ==
    /\ pc = "load"
    /\ dseg_input = "path"
    /\ data' = CastVolume(volume)
    /\ pc' = "build"
    /\ UNCHANGED <<args, mapping, warns, pos, out, todo, nwrites, raised, fs_dirs, fs_files>>

\* line 103: nib.load raises on a path that holds no volume
LoadMissing ==
    /\ pc = "load"
    /\ dseg_input = "missing"
    /\ raised' = "FileNotFoundError"
    /\ pc' = "error"
    /\ UNCHANGED <<args, data, mapping, warns, pos, out, todo, nwrites, fs_dirs, fs_files>>

\* lines 104-105, 109: an image object
LoadImage ==
    /\ pc = "load"
    /\ dseg_input = "image"
    /\ data' = CastVolume(volume)
    /\ pc' = "build"
    /\ UNCHANGED <<args, mapping, warns, pos, out, todo, nwrites, raised, fs_dirs, fs_files>>

\* lines 106-107
RejectInput ==
    /\ pc = "load"
    /\ dseg_input = "other"
    /\ raised' = "TypeError"
    /\ pc' = "error"
    /\ UNCHANGED <<args, data, mapping, warns, pos, out, todo, nwrites, fs_dirs, fs_files>>

\* the outcome r of one loop iteration: the call ends in ValueError, or the loop goes on
Built(r) ==
    /\ mapping' = r.mapping
    /\ warns' = r.warns
    /\ IF r.err
       THEN pc' = "error" /\ raised' = "ValueError" /\ pos' = pos
       ELSE pc' = "build" /\ raised' = raised /\ pos' = pos + 1
    /\ UNCHANGED <<args, data, out, todo, nwrites, fs_dirs, fs_files>>

\* lines 113-119: one `lab` of one entry of groups.items()
BuildFromMapping ==
    /\ pc = "build"
    /\ groups.form = "map"
    /\ pos < Len(Flat(groups))
    /\ LET c == Flat(groups)[pos + 1]
       IN  Built(MappingBranchStep(mapping, warns, c.key, c.lab))

\* lines 120-129: one `lab` of one group
BuildFromSequence ==
    /\ pc = "build"
    /\ groups.form = "seq"
    /\ pos < Len(Flat(groups))
    /\ LET c == Flat(groups)[pos + 1]
       IN  Built(SequenceBranchStep(mapping, warns, start_label, c.idx, c.lab))

\* lines 131-143, and the start of the loop of line 147
Allocate ==
    /\ pc = "build"
    /\ pos = Len(Flat(groups))
    /\ out' = Zeros(Len(data), ChooseDtype(out_dtype, mapping, preserve_zero))
    /\ todo' = mapping
    /\ nwrites' = [i \in 1..Len(data) |-> 0]
    /\ pc' = "apply"
    /\ UNCHANGED <<args, data, mapping, warns, pos, raised, fs_dirs, fs_files>>

\* NumPy's conversion of the Python int v to dtype dt: exact when v fits; otherwise
\* NumPy 1.x wraps and NumPy 2.x raises OverflowError
Convert(v, dt, np) ==
    IF InRange(v, dt) THEN [ok |-> TRUE, val |-> v]
    ELSE IF np = "wrap" THEN [ok |-> TRUE, val |-> WrapTo(v, dt)]
    ELSE [ok |-> FALSE, val |-> v]

\* lines 148-150 for the i-th item still to visit
Visit(i) ==
    LET it == todo[i]
        rest == SubSeq(todo, 1, i - 1) \o SubSeq(todo, i + 1, Len(todo))
        c == Convert(it.new, out.dtype, numpy_overflow)
    IN  /\ pc = "apply"
        /\ IF SkipsItem(it.orig, preserve_zero)
           THEN /\ todo' = rest
                /\ UNCHANGED <<pc, out, nwrites, raised>>
           ELSE IF c.ok
           THEN /\ out' = Assign(out, Mask(data, it.orig), c.val)
                /\ nwrites' = [v \in 1..Len(nwrites) |->
                                  IF v \in Mask(data, it.orig) THEN nwrites[v] + 1 ELSE nwrites[v]]
                /\ todo' = rest
                /\ UNCHANGED <<pc, raised>>
           ELSE /\ pc' = "error"
                /\ raised' = "OverflowError"
                /\ UNCHANGED <<out, nwrites, todo>>
        /\ UNCHANGED <<args, data, mapping, warns, pos, fs_dirs, fs_files>>

\* lines 147-150: the next item of mapping.items(), in insertion order
ApplyMapping ==
    /\ todo # <<>>
    /\ Visit(1)

\* lines 147-150 with the items visited in an arbitrary order
ApplyInAnyOrder ==
    \E i \in 1..Len(todo) : Visit(i)

NewDirs(p, dirs) == IF Dirname(p) # <<>> /\ Dirname(p) \notin dirs THEN {Dirname(p)} ELSE {}

\* lines 152-163 with an output path: the directory is made, the image saved and returned
SaveAndReturn ==
    /\ pc = "apply"
    /\ todo = <<>>
    /\ Truthy(output_path)
    /\ fs_dirs' = fs_dirs \cup NewDirs(output_path, fs_dirs)
    /\ fs_files' = fs_files \cup {[path |-> output_path.parts, image |-> out]}
    /\ pc' = "done"
    /\ UNCHANGED <<args, data, mapping, warns, pos, out, todo, nwrites, raised>>

\* lines 152-163 without one: the image is only returned
ReturnUnsaved ==
    /\ pc = "apply"
    /\ todo = <<>>
    /\ ~Truthy(output_path)
    /\ pc' = "done"
    /\ UNCHANGED <<args, data, mapping, warns, pos, out, todo, nwrites, raised,
                   fs_dirs, fs_files>>

Next ==
    \/ LoadPath
    \/ LoadMissing
    \/ LoadImage
    \/ RejectInput
    \/ BuildFromMapping
    \/ BuildFromSequence
    \/ Allocate
    \/ ApplyMapping
    \/ SaveAndReturn
    \/ ReturnUnsaved

Spec == Init /\ [][Next]_vars

NextAnyOrder ==
    \/ LoadPath
    \/ LoadMissing
    \/ LoadImage
    \/ RejectInput
    \/ BuildFromMapping
    \/ BuildFromSequence
    \/ Allocate
    \/ ApplyInAnyOrder
    \/ SaveAndReturn
    \/ ReturnUnsaved

SpecAnyOrder == Init /\ [][NextAnyOrder]_vars

(***************************************************************************)
(* Properties.                                                             *)
(***************************************************************************)
\* line 143 has run
Allocated == out.dtype # "None"

Voxels == 1..Len(data)

\* the build-loop iterations done so far
Processed == SubSeq(Flat(groups), 1, pos)

\* the integer values claimed so far
Claimed == {PyInt(Processed[j].lab).val : j \in 1..Len(Processed)}

\* the first processed iteration that claims the integer L
FirstClaim(L) ==
    Processed[CHOOSE j \in 1..Len(Processed) :
                  /\ PyInt(Processed[j].lab).val = L
                  /\ \A k \in 1..(j - 1) : PyInt(Processed[k].lab).val # L]

\* an item the loop of line 147 assigns (does not skip) whose label does not fit out
Misfit == \E i \in 1..Len(mapping) :
              /\ ~(mapping[i].orig = Py(0) /\ preserve_zero)
              /\ ~InRange(mapping[i].new, out.dtype)

\* C1: with preserve_zero, every voxel whose original value is 0 is 0 in the output
\* array, whatever the groups say about label 0.
C1_ZeroPreserved ==
    (preserve_zero /\ Allocated) => \A v \in Voxels : data[v] = 0 => out.vals[v] = Py(0)

C1_Witness ==
    /\ pc = "done"
    /\ preserve_zero
    /\ \E v \in Voxels : data[v] = 0
    /\ \E i \in 1..Len(mapping) : mapping[i].orig = Py(0) /\ mapping[i].new # Py(0)

\* C2: in the sequence form the keys of the mapping are exactly the labels claimed,
\* each once, and each maps to start_label + the index of the first group holding it.
C2_SequenceFirstWins ==
    groups.form = "seq" =>
        /\ {mapping[i].orig : i \in 1..Len(mapping)} = Claimed
        /\ Len(mapping) = Cardinality(Claimed)
        /\ \A i \in 1..Len(mapping) :
               mapping[i].new = PyAdd(start_label, FirstClaim(mapping[i].orig).idx)

C2_Witness ==
    /\ pc = "done"
    /\ groups.form = "seq"
    /\ \E j, k \in 1..Len(Processed) :
           /\ Processed[j].idx < Processed[k].idx
           /\ PyInt(Processed[j].lab).val = PyInt(Processed[k].lab).val

\* C3: in the mapping form each claimed integer label keeps the new label of the first
\* entry that claimed it, however later claims of the same integer are written.
C3_MappingFirstWins ==
    groups.form = "map" =>
        /\ {mapping[i].orig : i \in 1..Len(mapping)} = Claimed
        /\ \A i \in 1..Len(mapping) :
               mapping[i].new = PyInt(FirstClaim(mapping[i].orig).key).val

Bits(dt) == CASE dt = "int8" -> 8 [] dt = "int16" -> 16 [] dt = "int32" -> 32 [] dt = "int64" -> 64

\* C4: without an explicit out_dtype the width chosen is the smallest of 8, 16 and 32
\* bits whose maximum is at least needed = max(max_new, reserve).
C4_SmallestSufficientWidth ==
    (out_dtype = "None" /\ Allocated) =>
        /\ out.dtype \in {"int8", "int16", "int32"}
        /\ PyLeq(NeededMax(mapping, preserve_zero), IInfoMax(out.dtype))
        /\ \A d \in {"int8", "int16", "int32"} :
               Bits(d) < Bits(out.dtype) => ~PyLeq(NeededMax(mapping, preserve_zero), IInfoMax(d))

\* C5: with the width chosen automatically every voxel whose value is a key (other than
\* a preserved 0) ends up holding exactly the new label of that key.
C5_MappedVoxelsExact ==
    (out_dtype = "None" /\ (pc = "done" \/ raised = "OverflowError")) =>
        \A v \in Voxels :
            \A i \in 1..Len(mapping) :
                (mapping[i].orig = Py(data[v]) /\ ~(data[v] = 0 /\ preserve_zero))
                    => out.vals[v] = mapping[i].new

\* C6: a voxel whose value is no key of the mapping is 0 in the output, and the only
\* error the transform can raise comes from a label that does not fit, never from an
\* unmapped voxel.
C6_UnmappedIsBackground ==
    Allocated =>
        /\ \A v \in Voxels :
               (\A i \in 1..Len(mapping) : mapping[i].orig # Py(data[v])) => out.vals[v] = Py(0)
        /\ pc = "error" => (raised = "OverflowError" /\ Misfit)

C6_Witness ==
    /\ pc = "done"
    /\ \E v \in Voxels : data[v] # 0 /\ \A i \in 1..Len(mapping) : mapping[i].orig # Py(data[v])

\* the warnings emitted so far for the integer label L
WarningsFor(L) == {i \in 1..Len(warns) : warns[i].lab = L}

\* C7: every claim of an integer label after its first is dropped with one warning that
\* names the label and the new label it already has.
C7_ConflictWarnings ==
    \A L \in Claimed :
        /\ Cardinality(WarningsFor(L)) =
               Cardinality({j \in 1..Len(Processed) : PyInt(Processed[j].lab).val = L}) - 1
        /\ \A i \in WarningsFor(L) :
               warns[i].target = (IF groups.form = "seq"
                                  THEN PyAdd(start_label, FirstClaim(L).idx)
                                  ELSE PyInt(FirstClaim(L).key).val)

PathProvided == output_path.given /\ output_path.parts # <<>>

\* C8: a file is written only by a run that had an output path, built the whole mapping
\* and relabelled every item; a run that raises, or has no output path, leaves the
\* file system as it was.
C8_NoPartialOutput ==
    /\ fs_files # {} =>
           /\ pc = "done"
           /\ PathProvided
           /\ pos = Len(Flat(groups))
           /\ todo = <<>>
           /\ fs_files = {[path |-> output_path.parts, image |-> out]}
    /\ (pc # "done" \/ ~PathProvided) => (fs_files = {} /\ fs_dirs = PreexistingDirs)
    /\ (pc = "done" /\ PathProvided) => fs_files # {}

C8_Witness ==
    /\ pc = "done"
    /\ fs_files # {}
    /\ <<"newdir">> \in fs_dirs

RECURSIVE InOrder(_, _)
\* the loop of lines 147-150 over items, in insertion order, from the array o
InOrder(o, items) ==
    IF items = <<>> THEN [ok |-> TRUE, out |-> o]
    ELSE IF SkipsItem(items[1].orig, preserve_zero) THEN InOrder(o, Tail(items))
    ELSE IF ~Convert(items[1].new, o.dtype, numpy_overflow).ok THEN [ok |-> FALSE, out |-> o]
    ELSE InOrder(Assign(o, Mask(data, items[1].orig),
                        Convert(items[1].new, o.dtype, numpy_overflow).val),
                 Tail(items))

\* C9: no voxel is written by two items of the mapping, so visiting the items in any
\* order gives the outcome of visiting them in insertion order.
C9_OrderIndependent ==
    /\ \A v \in 1..Len(nwrites) : nwrites[v] <= 1
    /\ pc = "done" =>
           /\ InOrder(Zeros(Len(data), out.dtype), mapping).ok
           /\ out = InOrder(Zeros(Len(data), out.dtype), mapping).out
    /\ raised = "OverflowError" => ~InOrder(Zeros(Len(data), out.dtype), mapping).ok

C9_Witness ==
    /\ pc = "done"
    /\ Len(mapping) >= 2
    /\ \E v, w \in Voxels : data[v] # data[w] /\ nwrites[v] = 1 /\ nwrites[w] = 1

\* C10 as claimed: an explicit out_dtype is used unchanged and no error results from
\* its being narrower than the largest new label.
C10_NoErrorFromNarrowWidth ==
    out_dtype # "None" =>
        /\ Allocated => out.dtype = out_dtype
        /\ raised # "OverflowError"

\* C10: an explicit out_dtype is the dtype of the output array whatever needed is, the
\* width is not validated when the array is made, and a label that does not fit
\* raises only where it is stored, and only on a NumPy that refuses to wrap.
C10_ExplicitWidthUnchanged ==
    out_dtype # "None" =>
        /\ Allocated => out.dtype = out_dtype
        /\ (pc = "error" /\ ~Allocated) => raised \in {"FileNotFoundError", "TypeError", "ValueError"}
        /\ (pc = "error" /\ Allocated) =>
               (raised = "OverflowError" /\ numpy_overflow = "raise" /\ Misfit)

C10_Witness ==
    /\ pc = "done"
    /\ out_dtype = "int8"
    /\ ~PyLeq(NeededMax(mapping, preserve_zero), IInfoMax("int8"))
    /\ \E v \in Voxels : out.vals[v] # Py(0)
====
